---------------------------- MODULE Spec2Model ----------------------------
(***************************************************************************)
(* A model of the merkle_tree crate: the ToHash capability with its        *)
(* canonical combine, the MerkleTree reducer (append, root_hash,           *)
(* get_proof and the private reduction helpers) and the MerkleProof        *)
(* verifier (validate, reduce_proof).                                      *)
(*                                                                         *)
(* Digests.  A byte string is a sequence of naturals.  The hash is         *)
(* modelled as a collision-free function: hash(v) brackets v between the   *)
(* byte 0 and the byte 1, data bytes are >= 2, so hash is injective and    *)
(* the concatenation of two digests splits in one way only, as the         *)
(* concatenation of two fixed-size digests does.  The order on digests     *)
(* is the lexicographic order of their bytes, as for [u8; N]; the leaf     *)
(* sequences put the operands of combine in both orders.                   *)
(*                                                                         *)
(* Option<T> is a sequence of length 0 (None) or 1 (Some).                 *)
(*                                                                         *)
(* State.  leaves, path and current_path_leaf are the fields of the one    *)
(* MerkleTree; ret is what the last call returned, with its arguments.  A  *)
(* MerkleProof is immutable once constructed, so it is modelled as the     *)
(* temporary of the call that validates with it (ret.proof keeps it).      *)
(***************************************************************************)
EXTENDS Integers, Sequences, FiniteSets, TLC

VARIABLES leaves, path, current_path_leaf, ret

vars == <<leaves, path, current_path_leaf, ret>>

(***************************************************************************)
(* Bounds of the model.                                                    *)
(***************************************************************************)
\* number of one-byte raw data items the caller may hash into leaves
NumItems == 3
\* longest leaf sequence of the tree specification
MaxLeaves == 5
\* number of one-byte raw data items in the tree-and-verifier specification
NumProofItems == 2
\* longest leaf sequence of the tree-and-verifier specification
MaxProofLeaves == 3
\* longest proof sequence a verifier is constructed with by hand
MaxProofLen == 1
\* longest leaf sequence handed to from_leaves
MaxFromLeaves == 1

None == <<>>
Some(x) == <<x>>

\* let v = ...; F(v): v is evaluated once and named in what follows
Bind(v, F(_)) == F(v)

(***************************************************************************)
(* hash/to_hash.rs                                                         *)
(***************************************************************************)
\* <= on T::Hash (PartialOrd of a byte array): lexicographic
RECURSIVE le(_, _)
le(a, b) ==
    IF Len(a) = 0 THEN TRUE
    ELSE IF Len(b) = 0 THEN FALSE
    ELSE IF a[1] < b[1] THEN TRUE
    ELSE IF a[1] > b[1] THEN FALSE
    ELSE le(Tail(a), Tail(b))

\* T::hash: a collision-free hash of a byte string
hash(value) == <<0>> \o value \o <<1>>

\* Into<Vec<u8>> of a digest: its bytes
into(h) == h

\* [x, y].concat()
concat(x, y) == x \o y

\* a plausible slip: the operands are hashed in argument order
combine_unordered(left, right) == hash(concat(into(left), into(right)))

\* ToHash::combine
combine(left, right) ==
    IF le(left, right)
    THEN hash(concat(into(right), into(left)))
    ELSE hash(concat(into(left), into(right)))

(***************************************************************************)
(* merkle_tree.rs.  A tree value is the record of the struct's fields; a   *)
(* method returns kind ("Ok" or the TreeErrorKind), the tree as the call   *)
(* leaves it, and its value.                                               *)
(***************************************************************************)
MerkleTree(l, p, c) == [leaves |-> l, path |-> p, current_path_leaf |-> c]

\* MerkleTree::new
MerkleTree_new == MerkleTree(<<>>, <<>>, None)

\* MerkleTree::from_leaves
from_leaves(ls) == MerkleTree(ls, <<>>, None)

\* MerkleTree::append
append(self, leaf) == [self EXCEPT !.leaves = Append(self.leaves, leaf)]

\* MerkleTree::clear_path
clear_path(self) == [self EXCEPT !.path = <<>>, !.current_path_leaf = None]

\* MerkleTree::add_to_path
add_to_path(self, leaf_left, leaf_right, combined_leaf) ==
    IF Len(self.current_path_leaf) = 0
    THEN [kind |-> "PathLeafEmpty", self |-> self]
    ELSE LET cur == self.current_path_leaf[1]
         IN  IF leaf_left # cur /\ leaf_right # cur
             THEN [kind |-> "Ok", self |-> self]
             ELSE LET p1 == IF leaf_left = cur
                            THEN Append(self.path, leaf_right)
                            ELSE self.path
                      p2 == IF leaf_right = cur
                            THEN Append(p1, leaf_left)
                            ELSE p1
                  IN  [kind |-> "Ok",
                       self |-> [self EXCEPT !.path = p2,
                                             !.current_path_leaf = Some(combined_leaf)]]

\* the for loop of process_leaves_in_pairs, from `index` on
RECURSIVE pairs_loop(_, _, _, _, _)
pairs_loop(self, ls, generate_path, index, processed_leaves) ==
    IF index >= Len(ls) \div 2
    THEN [kind |-> "Ok", self |-> self, leaves |-> processed_leaves]
    ELSE Bind(ls[2 * index + 1], LAMBDA leaf_left :
         Bind(ls[2 * index + 2], LAMBDA leaf_right :
         Bind(combine(leaf_left, leaf_right), LAMBDA combined_leaf :
         Bind(IF generate_path
              THEN add_to_path(self, leaf_left, leaf_right, combined_leaf)
              ELSE [kind |-> "Ok", self |-> self], LAMBDA added :
            IF added.kind # "Ok"
            THEN [kind |-> added.kind, self |-> added.self, leaves |-> <<>>]
            ELSE pairs_loop(added.self, ls, generate_path, index + 1,
                            Append(processed_leaves, combined_leaf))))))

\* slice::last
last(ls) == IF Len(ls) = 0 THEN None ELSE Some(ls[Len(ls)])

\* a plausible slip: the unpaired last element of an odd level is dropped
process_leaves_in_pairs_no_carry(self, ls, generate_path) ==
    pairs_loop(self, ls, generate_path, 0, <<>>)

\* MerkleTree::process_leaves_in_pairs
process_leaves_in_pairs(self, ls, generate_path) ==
    Bind(pairs_loop(self, ls, generate_path, 0, <<>>), LAMBDA looped :
        IF looped.kind # "Ok" THEN looped
        ELSE IF Len(ls) % 2 = 1
        THEN Bind(last(ls), LAMBDA last_leaf :
                IF Len(last_leaf) = 0
                THEN [kind |-> "LeafEmpty", self |-> looped.self, leaves |-> <<>>]
                ELSE [looped EXCEPT !.leaves = Append(looped.leaves, last_leaf[1])])
        ELSE looped)

\* MerkleTree::reduce_tree
RECURSIVE reduce_tree(_, _, _)
reduce_tree(self, ls, generate_path) ==
    Bind(process_leaves_in_pairs(self, ls, generate_path), LAMBDA processed :
        IF processed.kind # "Ok" THEN processed
        ELSE IF Len(processed.leaves) > 1
        THEN reduce_tree(processed.self, processed.leaves, generate_path)
        ELSE processed)

\* the value of root_hash from what reduce_tree returned: `?`, then [0]
first_of(reduced) ==
    IF reduced.kind # "Ok"
    THEN [kind |-> reduced.kind, self |-> reduced.self, hash |-> None]
    ELSE IF Len(reduced.leaves) = 0
    THEN [kind |-> "Panic", self |-> reduced.self, hash |-> None]
    ELSE [kind |-> "Ok", self |-> reduced.self, hash |-> Some(reduced.leaves[1])]

\* a plausible slip: the emptiness check of root_hash is missing
root_hash_unchecked(self) == first_of(reduce_tree(self, self.leaves, FALSE))

\* MerkleTree::root_hash
root_hash(self) ==
    IF Len(self.leaves) = 0
    THEN [kind |-> "TreeEmpty", self |-> self, hash |-> None]
    ELSE first_of(reduce_tree(self, self.leaves, FALSE))

\* a plausible slip: the transient path state is not cleared on return
get_proof_no_clear(self, leaf) ==
    Bind(reduce_tree([self EXCEPT !.current_path_leaf = Some(leaf)],
                     self.leaves, TRUE), LAMBDA reduced :
        IF reduced.kind # "Ok"
        THEN [kind |-> reduced.kind, self |-> reduced.self, proof |-> <<>>]
        ELSE [kind |-> "Ok", self |-> reduced.self, proof |-> reduced.self.path])

\* a plausible slip: the target is not set before the reduction
get_proof_no_target(self, leaf) ==
    Bind(reduce_tree(self, self.leaves, TRUE), LAMBDA reduced :
        IF reduced.kind # "Ok"
        THEN [kind |-> reduced.kind, self |-> reduced.self, proof |-> <<>>]
        ELSE [kind |-> "Ok", self |-> clear_path(reduced.self),
              proof |-> reduced.self.path])

\* MerkleTree::get_proof
get_proof(self, leaf) ==
    Bind(reduce_tree([self EXCEPT !.current_path_leaf = Some(leaf)],
                     self.leaves, TRUE), LAMBDA reduced :
        IF reduced.kind # "Ok"
        THEN [kind |-> reduced.kind, self |-> reduced.self, proof |-> <<>>]
        ELSE [kind |-> "Ok", self |-> clear_path(reduced.self),
              proof |-> reduced.self.path])

(***************************************************************************)
(* merkle_proof.rs                                                         *)
(***************************************************************************)
\* MerkleProof::new
MerkleProof_new(p) == [proof |-> p]

\* Iterator::reduce with T::combine: None on an empty iterator
RECURSIVE fold_combine(_, _)
fold_combine(acc, rest) ==
    IF Len(rest) = 0 THEN acc
    ELSE fold_combine(combine(acc, rest[1]), Tail(rest))

reduce(items) ==
    IF Len(items) = 0 THEN None
    ELSE Some(fold_combine(items[1], Tail(items)))

\* MerkleProof::reduce_proof
reduce_proof(self, leaf) ==
    LET inserted == <<leaf>> \o self.proof
        reduced == reduce(inserted)
    IN  IF Len(reduced) = 0
        THEN [kind |-> "ProofEmpty", hash |-> None]
        ELSE [kind |-> "Ok", hash |-> reduced]

\* MerkleProof::validate; kind keeps what reduce_proof returned
validate(self, root, leaf) ==
    LET r == reduce_proof(self, leaf)
    IN  IF r.kind # "Ok"
        THEN [kind |-> r.kind, valid |-> FALSE]
        ELSE [kind |-> "Ok", valid |-> (root = r.hash[1])]

(***************************************************************************)
(* utils/test.rs                                                           *)
(***************************************************************************)
\* full_root_hash: the expected root of five leaves, written out
full_root_hash(ls) ==
    combine(combine(combine(ls[1], ls[2]), combine(ls[3], ls[4])), ls[5])

(***************************************************************************)
(* The callers' inputs.                                                    *)
(***************************************************************************)
\* the raw one-byte data items "0", "1", ...
RawItems == {<<k>> : k \in 2..(NumItems + 1)}

\* the digests of the raw items (raw_leaves_to_hashed_leaves)
RawLeaves == {hash(v) : v \in RawItems}

\* the same for the tree-and-verifier specification
ProofRawLeaves == {hash(<<k>>) : k \in 2..(NumProofItems + 1)}

\* a data item that is the concatenation of two digests, greater first
PairItem ==
    LET a == hash(<<2>>)
        b == hash(<<3>>)
    IN  IF le(a, b) THEN concat(into(b), into(a)) ELSE concat(into(a), into(b))

\* the digests a caller passes as leaves
Digests == RawLeaves \cup {hash(PairItem)}
ProofDigests == ProofRawLeaves \cup {hash(PairItem)}

Range(s) == {s[i] : i \in 1..Len(s)}

\* the sequences over S of length at most n
SeqsUpTo(S, n) == UNION {[1..k -> S] : k \in 0..n}

Ret(op, kind, leaf, root, h, p, valid) ==
    [op |-> op, kind |-> kind, leaf |-> leaf, root |-> root,
     hash |-> h, proof |-> p, valid |-> valid]

Self == MerkleTree(leaves, path, current_path_leaf)

SetSelf(self) ==
    /\ leaves' = self.leaves
    /\ path' = self.path
    /\ current_path_leaf' = self.current_path_leaf

(***************************************************************************)
(* The tree specification: a tree built by new() or from_leaves() and used *)
(* through append, root_hash and get_proof.                                *)
(***************************************************************************)
Init ==
    \/ /\ leaves = MerkleTree_new.leaves
       /\ path = MerkleTree_new.path
       /\ current_path_leaf = MerkleTree_new.current_path_leaf
       /\ ret = Ret("new", "Ok", None, None, None, <<>>, FALSE)
    \/ \E ls \in SeqsUpTo(Digests, MaxFromLeaves) :
          /\ leaves = from_leaves(ls).leaves
          /\ path = from_leaves(ls).path
          /\ current_path_leaf = from_leaves(ls).current_path_leaf
          /\ ret = Ret("from_leaves", "Ok", None, None, None, <<>>, FALSE)

AppendLeaf(leaf, max) ==
    /\ Len(leaves) < max
    /\ SetSelf(append(Self, leaf))
    /\ ret' = Ret("append", "Ok", Some(leaf), None, None, <<>>, FALSE)

RootHash ==
    LET r == root_hash(Self)
    IN  /\ SetSelf(r.self)
        /\ ret' = Ret("root_hash", r.kind, None, None, r.hash, <<>>, FALSE)

GetProof(leaf) ==
    LET r == get_proof(Self, leaf)
    IN  /\ SetSelf(r.self)
        /\ ret' = Ret("get_proof", r.kind, Some(leaf), None, None, r.proof, FALSE)

Next ==
    \/ \E d \in Digests : AppendLeaf(d, MaxLeaves)
    \/ RootHash
    \/ \E d \in Digests : GetProof(d)

Spec == Init /\ [][Next]_vars

(***************************************************************************)
(* The tree-and-verifier specification: the same tree, on shorter leaf     *)
(* sequences, and a caller that ends its session by validating a leaf,     *)
(* either as the documentation of validate does (root and proof taken from *)
(* the tree) or with a root and a proof of its own.  validate changes      *)
(* nothing, so every validate call a longer session could make is the last *)
(* call of one of these.                                                   *)
(***************************************************************************)
SessionOver == ret.op \in {"validate", "prove_and_validate"}

SessionAppendLeaf(leaf) == ~SessionOver /\ AppendLeaf(leaf, MaxProofLeaves)

SessionRootHash == ~SessionOver /\ RootHash

SessionGetProof(leaf) == ~SessionOver /\ GetProof(leaf)

\* let hash = tree.root_hash()?; let proof = tree.get_proof(leaf)?;
\* MerkleProof::new(proof).validate(hash, leaf)
ProveAndValidate(leaf) ==
    /\ ~SessionOver
    /\ \E r \in {root_hash(Self)} :
        IF r.kind # "Ok"
        THEN /\ SetSelf(r.self)
             /\ ret' = Ret("prove_and_validate", r.kind, Some(leaf), None, None,
                           <<>>, FALSE)
        ELSE \E g \in {get_proof(r.self, leaf)} :
                IF g.kind # "Ok"
                THEN /\ SetSelf(g.self)
                     /\ ret' = Ret("prove_and_validate", g.kind, Some(leaf),
                                   r.hash, None, <<>>, FALSE)
                ELSE \E v \in {validate(MerkleProof_new(g.proof), r.hash[1], leaf)} :
                        /\ SetSelf(g.self)
                        /\ ret' = Ret("prove_and_validate", v.kind, Some(leaf),
                                      r.hash, None, g.proof, v.valid)

\* MerkleProof::new(p).validate(root, leaf)
Validate(p, root, leaf) ==
    /\ ~SessionOver
    /\ \E v \in {validate(MerkleProof_new(p), root, leaf)} :
          ret' = Ret("validate", v.kind, Some(leaf), Some(root), None, p, v.valid)
    /\ UNCHANGED <<leaves, path, current_path_leaf>>

\* the roots a caller validates against: any digest, or the tree's root
RootInputs == ProofDigests \cup Range(root_hash(Self).hash)

NextProof ==
    \/ \E d \in ProofDigests : SessionAppendLeaf(d)
    \/ SessionRootHash
    \/ \E d \in ProofDigests : SessionGetProof(d)
    \/ \E d \in ProofDigests : ProveAndValidate(d)
    \/ \E p \in SeqsUpTo(ProofDigests, MaxProofLen), root \in RootInputs,
          d \in ProofDigests : Validate(p, root, d)

InitProof ==
    \E ls \in SeqsUpTo(ProofDigests, MaxFromLeaves) :
        /\ leaves = from_leaves(ls).leaves
        /\ path = from_leaves(ls).path
        /\ current_path_leaf = from_leaves(ls).current_path_leaf
        /\ ret = Ret("from_leaves", "Ok", None, None, None, <<>>, FALSE)

SpecProof == InitProof /\ [][NextProof]_vars

(***************************************************************************)
(* Reference definitions the properties are stated with.                   *)
(***************************************************************************)
Distinct(s) == \A i, j \in 1..Len(s) : s[i] = s[j] => i = j

\* one level of the reduction: pairs (1,2), (3,4), ... combined, an unpaired
\* last element carried unchanged
RefLevel(ls) ==
    [i \in 1..((Len(ls) + 1) \div 2) |->
        IF 2 * i <= Len(ls) THEN combine(ls[2 * i - 1], ls[2 * i]) ELSE ls[Len(ls)]]

RECURSIVE RefRoot(_)
RefRoot(ls) == IF Len(ls) = 1 THEN ls[1] ELSE RefRoot(RefLevel(ls))

\* the siblings on the path from position i to the root, bottom-up; no entry
\* for a level at which the node at position i is carried unpaired
RECURSIVE RefTrail(_, _)
RefTrail(ls, i) ==
    IF Len(ls) <= 1 THEN <<>>
    ELSE LET here == IF i % 2 = 0 THEN <<ls[i - 1]>>
                     ELSE IF i + 1 <= Len(ls) THEN <<ls[i + 1]>>
                     ELSE <<>>
         IN  here \o RefTrail(RefLevel(ls), (i + 1) \div 2)

FirstIndex(ls, x) == CHOOSE i \in 1..Len(ls) : ls[i] = x /\ \A j \in 1..(i - 1) : ls[j] # x

Greater(a, b) == CHOOSE x \in {a, b} : \A y \in {a, b} : le(y, x)
Lesser(a, b) == CHOOSE x \in {a, b} : \A y \in {a, b} : le(x, y)

\* every digest the state holds
StateDigests == Range(leaves) \cup Range(ret.proof) \cup Range(ret.hash)

(***************************************************************************)
(* Properties of the tree specification.                                   *)
(***************************************************************************)
\* C3: on a non-empty tree root_hash returns the levelwise pairwise reduction
\* of the leaves with the unpaired last element of an odd level carried
\* unchanged: the single leaf itself for one leaf, combine(combine(A,B),C) for
\* three, and the written-out value of full_root_hash for five.
C3_RootIsLevelwiseReduction ==
    (ret.op = "root_hash" /\ Len(leaves) >= 1) =>
        /\ ret.kind = "Ok"
        /\ ret.hash = Some(RefRoot(leaves))
        /\ Len(leaves) = 1 => ret.hash = Some(leaves[1])
        /\ Len(leaves) = 3 =>
              ret.hash = Some(combine(combine(leaves[1], leaves[2]), leaves[3]))
        /\ Len(leaves) = 5 => ret.hash = Some(full_root_hash(leaves))

C3_Witness ==
    /\ ret.op = "root_hash"
    /\ Len(leaves) = 5
    /\ ret.kind = "Ok"
    /\ ret.hash = Some(full_root_hash(leaves))

\* C4: for pairwise distinct leaves, get_proof of the leaf at position i returns
\* exactly the siblings on the positional path from i to the root, bottom-up.
C4_ProofIsPositionalTrail ==
    (ret.op = "get_proof" /\ Distinct(leaves)) =>
        \A i \in 1..Len(leaves) :
            leaves[i] = ret.leaf[1] =>
                ret.kind = "Ok" /\ ret.proof = RefTrail(leaves, i)

\* C5: combine hashes the greater digest followed by the lesser one (and
\* a ++ a for equal digests), so it does not depend on the order of its
\* arguments; the root of a two-leaf tree is that value.
C5_CombineCanonical ==
    /\ \A a, b \in StateDigests :
          /\ combine(a, b) = hash(Greater(a, b) \o Lesser(a, b))
          /\ combine(a, b) = combine(b, a)
          /\ a = b => combine(a, b) = hash(a \o a)
    /\ (ret.op = "root_hash" /\ Len(leaves) = 2) =>
          ret.hash = Some(hash(Greater(leaves[1], leaves[2])
                               \o Lesser(leaves[1], leaves[2])))

C5_Witness ==
    /\ ret.op = "root_hash"
    /\ Len(leaves) = 2
    /\ leaves[1] # leaves[2]
    /\ le(leaves[1], leaves[2])
    /\ ret.hash = Some(hash(leaves[2] \o leaves[1]))

\* C6: root_hash fails with TreeEmpty on a tree without leaves and succeeds
\* with a digest on every tree with at least one leaf.
C6_RootHashEmptyTree ==
    ret.op = "root_hash" =>
        IF Len(leaves) = 0
        THEN ret.kind = "TreeEmpty" /\ ret.hash = None
        ELSE ret.kind = "Ok" /\ Len(ret.hash) = 1

C6_Witness ==
    /\ ret.op = "root_hash"
    /\ Len(leaves) = 0
    /\ ret.kind = "TreeEmpty"

\* C7: get_proof on a tree without leaves fails with TreeEmpty.
C7_GetProofEmptyTree ==
    (ret.op = "get_proof" /\ Len(leaves) = 0) => ret.kind = "TreeEmpty"

\* C8: a query leaves the tree as it found it: path is empty and
\* current_path_leaf is unset whenever a call has returned, root_hash and
\* get_proof never change the stored leaves, only append changes them (by
\* adding its argument at the end), and what root_hash returns depends on the
\* stored leaves alone, whatever queries came before.
C8_QueriesAreSideEffectFree ==
    /\ [](path = <<>> /\ current_path_leaf = None)
    /\ [][ret'.op \in {"root_hash", "get_proof"} => leaves' = leaves]_vars
    /\ [][leaves' # leaves =>
            ret'.op = "append" /\ leaves' = Append(leaves, ret'.leaf[1])]_vars
    /\ [](ret.op = "root_hash" => ret.hash = root_hash(from_leaves(leaves)).hash)

C8_Witness ==
    /\ ret.op = "get_proof"
    /\ Len(ret.proof) >= 2
    /\ path = <<>>
    /\ current_path_leaf = None

\* C9: when the queried digest occurs more than once among the leaves,
\* get_proof returns the sibling trail of its first occurrence, one digest per
\* pairing step (for leaves [A, A] the proof for A is [A]).
C9_FirstOccurrenceTrail ==
    (/\ ret.op = "get_proof"
     /\ Cardinality({i \in 1..Len(leaves) : leaves[i] = ret.leaf[1]}) >= 2) =>
        ret.proof = RefTrail(leaves, FirstIndex(leaves, ret.leaf[1]))

(***************************************************************************)
(* Properties of the tree-and-verifier specification.                      *)
(***************************************************************************)
\* the left fold of a non-empty sequence through combine
RECURSIVE RefFold(_)
RefFold(s) ==
    IF Len(s) = 1 THEN s[1]
    ELSE combine(RefFold(SubSeq(s, 1, Len(s) - 1)), s[Len(s)])

\* C1: for a tree of pairwise distinct leaves and a leaf x of it, validating x
\* against the tree's root with the proof get_proof(x) returns true.
C1_Completeness ==
    (/\ ret.op = "prove_and_validate"
     /\ Distinct(leaves)
     /\ ret.leaf[1] \in Range(leaves)) =>
        ret.kind = "Ok" /\ ret.valid

\* C2: against the root of a non-empty tree, validate returns false for every
\* digest that is not a leaf of the tree, whatever the proof.
C2_Soundness ==
    (/\ ret.op \in {"validate", "prove_and_validate"}
     /\ Len(leaves) >= 1
     /\ ret.root = root_hash(from_leaves(leaves)).hash
     /\ ret.leaf[1] \notin Range(leaves)) =>
        ~ret.valid

\* C10: root_hash and get_proof return no error but TreeEmpty, validate never
\* meets ProofEmpty, it returns true exactly when the fold of the leaf and the
\* proof through combine equals the root, and with an empty proof exactly
\* when the root is the leaf.
C10_DefensiveErrorsUnreachable ==
    /\ ret.op \in {"root_hash", "get_proof", "prove_and_validate"} =>
          ret.kind \in {"Ok", "TreeEmpty"}
    /\ ret.op = "validate" =>
          /\ ret.kind = "Ok"
          /\ ret.valid <=> (ret.root[1] = RefFold(ret.leaf \o ret.proof))
          /\ ret.proof = <<>> => (ret.valid <=> (ret.root = ret.leaf))
    /\ (ret.op = "prove_and_validate" /\ Len(leaves) >= 1) =>
          /\ ret.kind = "Ok"
          /\ ret.valid <=> (ret.root[1] = RefFold(ret.leaf \o ret.proof))

C10_Witness ==
    /\ ret.op = "validate"
    /\ ret.kind = "Ok"
    /\ ret.proof = <<>>
    /\ ret.root # ret.leaf
    /\ ~ret.valid

=============================================================================
